---- MODULE Spec2Model ----
(***************************************************************************)
(* Model of packages/api/src/driver/github.ts (GithubManager): the         *)
(* ownership verification workflow verifyOwnership, the project and        *)
(* projectClaim tables it writes, and the read-through cache behind        *)
(* getRepo.  Every await of verifyOwnership is one action, so concurrent   *)
(* attempts interleave at exactly the points where the code suspends.      *)
(* updatedAt counts the refreshes of a row's timestamp, so that every      *)
(* write of new Date() is visible.  Spec holds the clock still: an attempt *)
(* lasts seconds, a cache entry five minutes.                              *)
(***************************************************************************)
EXTENDS Integers, Sequences, FiniteSets, TLC

\* ---------------------------------------------------------------- bounds
NumAttempts == 2      \* concurrent verifyOwnership invocations

Attempts == 1..NumAttempts

\* ------------------------------------------------------------ value sets
Null == "null"                        \* JS null / undefined
Err == "error"                        \* a rejected provider promise
Unasked == "unasked"                  \* the lookup was never issued

Users == {"u1", "u2"}                 \* session user ids
Sessions == Users \cup {Null}         \* ctx.session may be absent
Projects == {"p1"}                    \* rows of the project table
Logins == {"acme", "alice"}           \* logins the token may resolve to
OwnerLogins == {"acme"}               \* repoData.owner.login
OwnerTypes == {"User", "Organization"}
PermissionLevels == {"none", "read", "write", "admin"}
Roles == {"member", "admin"}
MemberStates == {"active", "pending"}
Memberships == [role : Roles, state : MemberStates]
NoMembership == [role |-> Unasked, state |-> Unasked]
ErrMembership == [role |-> Err, state |-> Err]
RepoDatas == [login : OwnerLogins, type : OwnerTypes]
NoRepo == [login |-> Null, type |-> Null]

\* identifiers are strings, modelled as sequences of characters
Identifiers == { <<"a", "/", "r">>, <<"a">> }

VARIABLES att, ownerId, updatedAt, claims, cache, now,
          parse, fetch, contrib, prs

\* the state of the operations other than verifyOwnership
others == <<parse, fetch, contrib, prs>>

vars == <<att, ownerId, updatedAt, claims, cache, now, others>>

\* ------------------------------------------------------- parseRepoIdentifier
\* String.prototype.split('/'): the segments between the separators.
RECURSIVE SplitFrom(_, _, _)
SplitFrom(s, i, cur) ==
    IF i > Len(s) THEN <<cur>>
    ELSE IF s[i] = "/" THEN <<cur>> \o SplitFrom(s, i + 1, <<>>)
    ELSE SplitFrom(s, i + 1, Append(cur, s[i]))

Split(s) == SplitFrom(s, 1, <<>>)

\* const [owner, repo] = identifier.split('/'): a missing element is undefined
Segment(parts, i) ==
    IF i <= Len(parts) THEN [defined |-> TRUE, text |-> parts[i]]
    ELSE [defined |-> FALSE, text |-> <<>>]

\* !x for a string or undefined
Falsy(x) == ~x.defined \/ x.text = <<>>

\* ok = FALSE stands for the thrown Error('Invalid repository format...')
parseRepoIdentifier(identifier) ==
    LET parts == Split(identifier)
        owner == Segment(parts, 1)
        repo == Segment(parts, 2)
    IN IF Falsy(owner) \/ Falsy(repo)
       THEN [ok |-> FALSE, owner |-> <<>>, repo |-> <<>>]
       ELSE [ok |-> TRUE, owner |-> owner.text, repo |-> repo.text]

\* ------------------------------------------------------------------ cache
\* mutant: the ttl of getIssues given to getRepo
RepoTtlTenMinutes == 10 * 60

\* { ttl: 5 * 60 }
RepoTtl == 5 * 60

NoEntry == [value |-> NoRepo, storedAt |-> -1]

\* an entry answers a lookup while it is younger than ttl seconds
CacheHit(key, ttl) ==
    /\ cache[key] # NoEntry
    /\ now - cache[key].storedAt < ttl

\* no call of parseRepoIdentifier, getRepo, getContributors or
\* getUserPullRequests is under way
ParseIdle ==
    [pc |-> "idle", identifier |-> <<>>,
     out |-> [ok |-> FALSE, owner |-> <<>>, repo |-> <<>>]]

FetchIdle ==
    [pc |-> "idle", key |-> <<>>, before |-> NoEntry, lookupAt |-> 0,
     produced |-> 0, result |-> NoRepo]

ContribIdle ==
    [pc |-> "idle", page |-> 1, hasMore |-> TRUE, count |-> 0,
     requested |-> <<>>, lengths |-> <<>>]

PrsIdle ==
    [pc |-> "idle", upstream |-> <<>>, limitArg |-> 0, stateFilter |-> "all",
     limit |-> 0, allPRs |-> <<>>, hasNextPage |-> TRUE, cursor |-> 0,
     afters |-> <<>>, firsts |-> <<>>, sizes |-> <<>>, result |-> <<>>]

OthersIdle ==
    /\ parse = ParseIdle
    /\ fetch = FetchIdle
    /\ contrib = ContribIdle
    /\ prs = PrsIdle

\* --------------------------------------------------------- attempt records
InitAttempt ==
    [pc |-> "idle", identifier |-> <<>>, projectId |-> Null, session |-> Null,
     owner |-> <<>>, repo |-> <<>>,
     currentUser |-> Null, repoData |-> NoRepo,
     permission |-> Unasked, membership |-> NoMembership,
     permCalls |-> 0, orgCalls |-> 0,
     isOwner |-> FALSE, ownershipType |-> "",
     rows |-> "none", outcome |-> Null]

\* no verifyOwnership call was made yet: every project is unclaimed
VerifyIdle ==
    /\ att = [a \in Attempts |-> InitAttempt]
    /\ ownerId = [p \in Projects |-> Null]
    /\ updatedAt = [p \in Projects |-> 0]
    /\ claims = {}

Init ==
    /\ VerifyIdle
    /\ cache = [k \in Identifiers |-> NoEntry]
    /\ now = 0
    /\ OthersIdle

Set(a, r) == att' = [att EXCEPT ![a] = r]

Fail(a, r, outcome) == Set(a, [r EXCEPT !.pc = "done", !.outcome = outcome])

\* verifyOwnership is called: the identifier is parsed before the first await.
\* Attempts and user ids are interchangeable, so attempt a + 1 begins after
\* attempt a and "u2" is used only once "u1" is in use.
Begin(a) ==
    /\ att[a].pc = "idle"
    /\ \A b \in Attempts : b < a => att[b].pc # "idle"
    /\ \E identifier \in Identifiers, projectId \in Projects, session \in Sessions :
         /\ session = "u2" => \E b \in Attempts : att[b].session = "u1"
         /\ LET parsed == parseRepoIdentifier(identifier)
                r == [att[a] EXCEPT !.identifier = identifier,
                                    !.projectId = projectId,
                                    !.session = session,
                                    !.owner = parsed.owner,
                                    !.repo = parsed.repo]
            IN IF parsed.ok
               THEN Set(a, [r EXCEPT !.pc = "getCurrentUser"])
               ELSE Fail(a, r, "InvalidIdentifier")
    /\ UNCHANGED <<ownerId, updatedAt, claims, cache, now, others>>

\* const currentUser = await this.getCurrentUser()
GetCurrentUser(a) ==
    /\ att[a].pc = "getCurrentUser"
    /\ \/ \E login \in Logins :
            Set(a, [att[a] EXCEPT !.currentUser = login, !.pc = "getRepo"])
       \/ Fail(a, att[a], "IdentityFailure")
    /\ UNCHANGED <<ownerId, updatedAt, claims, cache, now, others>>

\* lines 203-213: the direct ownership check, run as soon as repoData is known
DirectOwner(repoData, currentUser) == repoData.login = currentUser

\* mutant: the organization path is tried before the direct ownership check
AfterRepoOrgFirst(r) ==
    IF r.repoData.type = "Organization"
    THEN [r EXCEPT !.pc = "getPermission"]
    ELSE IF DirectOwner(r.repoData, r.currentUser)
    THEN [r EXCEPT !.isOwner = TRUE, !.ownershipType = "repository owner",
                   !.pc = "update"]
    ELSE [r EXCEPT !.pc = "deny"]

AfterRepo(r) ==
    IF DirectOwner(r.repoData, r.currentUser)
    THEN [r EXCEPT !.isOwner = TRUE, !.ownershipType = "repository owner",
                   !.pc = "update"]
    ELSE IF r.repoData.type = "Organization"
    THEN [r EXCEPT !.pc = "getPermission"]
    ELSE [r EXCEPT !.pc = "deny"]

\* const repoData = await this.getRepo(identifier): the cache lookup
GetRepo(a) ==
    /\ att[a].pc = "getRepo"
    /\ IF CacheHit(att[a].identifier, RepoTtl)
       THEN Set(a, AfterRepo([att[a] EXCEPT
                        !.repoData = cache[att[a].identifier].value]))
       ELSE Set(a, [att[a] EXCEPT !.pc = "fetchRepo"])
    /\ UNCHANGED <<ownerId, updatedAt, claims, cache, now, others>>

\* mutant: a failed repository lookup is recorded as a denied claim
FetchRepoRecordsFailure(a) ==
    /\ att[a].pc = "fetchRepo"
    /\ \/ \E data \in RepoDatas :
            /\ cache' = [cache EXCEPT ![att[a].identifier] =
                            [value |-> data, storedAt |-> now]]
            /\ Set(a, AfterRepo([att[a] EXCEPT !.repoData = data]))
            /\ UNCHANGED claims
       \/ /\ Fail(a, att[a], "RepositoryFailure")
          /\ claims' = claims \cup
                {[by |-> a, projectId |-> att[a].projectId,
                  userId |-> att[a].session, success |-> FALSE,
                  verificationMethod |-> "github_api",
                  verifiedAs |-> att[a].currentUser,
                  repoOwner |-> Null, repoOwnerType |-> Null,
                  detail |-> "insufficient_permissions"]}
          /\ UNCHANGED cache
    /\ UNCHANGED <<ownerId, updatedAt, now, others>>

\* the producer of getRepo: octokit.rest.repos.get, stored on success only
FetchRepo(a) ==
    /\ att[a].pc = "fetchRepo"
    /\ \/ \E data \in RepoDatas :
            /\ cache' = [cache EXCEPT ![att[a].identifier] =
                            [value |-> data, storedAt |-> now]]
            /\ Set(a, AfterRepo([att[a] EXCEPT !.repoData = data]))
       \/ /\ Fail(a, att[a], "RepositoryFailure")
          /\ UNCHANGED cache
    /\ UNCHANGED <<ownerId, updatedAt, claims, now, others>>

\* mutant: the membership state is not tested
IsAdminRole(m) == m.role = "admin"

\* membership.role === 'admin' && membership.state === 'active'
IsActiveAdmin(m) == m.role = "admin" /\ m.state = "active"

\* mutant: the claim is recorded before the project row is updated
GrantRecordFirst(r, type) ==
    [r EXCEPT !.isOwner = TRUE, !.ownershipType = type, !.pc = "insertSuccess"]

Grant(r, type) ==
    [r EXCEPT !.isOwner = TRUE, !.ownershipType = type, !.pc = "update"]

\* mutant: no try around the permission lookup
AfterPermissionUncaught(r, level) ==
    IF level = Err THEN [r EXCEPT !.pc = "done", !.outcome = "Internal"]
    ELSE IF level = "admin" THEN [r EXCEPT !.pc = "getMembershipAdmin"]
    ELSE [r EXCEPT !.pc = "deny"]

\* lines 214-226 and the catch at 247: getCollaboratorPermissionLevel
AfterPermission(r, level) ==
    IF level = Err THEN [r EXCEPT !.pc = "getMembershipFallback"]
    ELSE IF level = "admin" THEN [r EXCEPT !.pc = "getMembershipAdmin"]
    ELSE [r EXCEPT !.pc = "deny"]

GetPermission(a) ==
    /\ att[a].pc = "getPermission"
    /\ \E level \in PermissionLevels \cup {Err} :
         Set(a, AfterPermission([att[a] EXCEPT !.permission = level,
                                   !.permCalls = @ + 1], level))
    /\ UNCHANGED <<ownerId, updatedAt, claims, cache, now, others>>

\* mutant: a failed membership lookup of an admin collaborator denies
AfterMembershipAdminStrict(r, m) ==
    IF m # ErrMembership /\ IsActiveAdmin(m) THEN Grant(r, "organization owner")
    ELSE [r EXCEPT !.pc = "deny"]

\* lines 227-245: the membership lookup of an admin collaborator
AfterMembershipAdmin(r, m) ==
    IF m = ErrMembership THEN Grant(r, "repository admin")
    ELSE IF IsActiveAdmin(m) THEN Grant(r, "organization owner")
    ELSE [r EXCEPT !.pc = "deny"]

GetMembershipAdmin(a) ==
    /\ att[a].pc = "getMembershipAdmin"
    /\ \E m \in Memberships \cup {ErrMembership} :
         Set(a, AfterMembershipAdmin([att[a] EXCEPT !.membership = m,
                                        !.orgCalls = @ + 1], m))
    /\ UNCHANGED <<ownerId, updatedAt, claims, cache, now, others>>

\* mutant: the catch of the admin branch copied into the fallback branch
AfterMembershipFallbackPermissive(r, m) ==
    IF m = ErrMembership THEN Grant(r, "repository admin")
    ELSE IF IsActiveAdmin(m) THEN Grant(r, "organization owner")
    ELSE [r EXCEPT !.pc = "deny"]

\* lines 253-265: the membership lookup after the permission lookup threw
AfterMembershipFallback(r, m) ==
    IF m # ErrMembership /\ IsActiveAdmin(m)
    THEN Grant(r, "organization owner")
    ELSE [r EXCEPT !.pc = "deny"]

GetMembershipFallback(a) ==
    /\ att[a].pc = "getMembershipFallback"
    /\ \E m \in Memberships \cup {ErrMembership} :
         Set(a, AfterMembershipFallback([att[a] EXCEPT !.membership = m,
                                           !.orgCalls = @ + 1], m))
    /\ UNCHANGED <<ownerId, updatedAt, claims, cache, now, others>>

\* the projectClaim row of a denial (lines 271-283); by is the writing attempt
FailureClaim(a) ==
    [by |-> a, projectId |-> att[a].projectId, userId |-> att[a].session,
     success |-> FALSE, verificationMethod |-> "github_api",
     verifiedAs |-> att[a].currentUser,
     repoOwner |-> att[a].repoData.login,
     repoOwnerType |-> att[a].repoData.type,
     detail |-> "insufficient_permissions"]

\* mutant: FORBIDDEN is thrown without the insert
DenyWithoutRecord(a) ==
    /\ att[a].pc = "deny"
    /\ Fail(a, att[a], IF att[a].session = Null THEN "TypeError" ELSE "Authorization")
    /\ UNCHANGED <<ownerId, updatedAt, claims, cache, now, others>>

\* lines 269-289: ctx.session!.userId throws a TypeError without a session
Deny(a) ==
    /\ att[a].pc = "deny"
    /\ IF att[a].session = Null
       THEN /\ Fail(a, att[a], "TypeError")
            /\ UNCHANGED claims
       ELSE /\ claims' = claims \cup {FailureClaim(a)}
            /\ Fail(a, att[a], "Authorization")
    /\ UNCHANGED <<ownerId, updatedAt, cache, now, others>>

\* mutant: the where clause without isNull(project.ownerId)
UpdateWhereIdOnly(p) == p \in Projects

\* .where(and(eq(project.id, projectId), isNull(project.ownerId)))
UpdateWhere(p) == ownerId[p] = Null

\* mutant: the returned rows are not inspected
AfterUpdateUnchecked(r, matched) ==
    [r EXCEPT !.rows = IF matched THEN "hit" ELSE "miss", !.pc = "insertSuccess"]

\* if (!updatedProject[0]) throw CONFLICT
AfterUpdate(r, matched) ==
    IF matched
    THEN [r EXCEPT !.rows = "hit", !.pc = "insertSuccess"]
    ELSE [r EXCEPT !.rows = "miss", !.pc = "done", !.outcome = "Conflict"]

\* lines 293-307: the conditional update; ctx.session?.userId ?? null
Update(a) ==
    /\ att[a].pc = "update"
    /\ LET p == att[a].projectId
       IN IF UpdateWhere(p)
          THEN /\ ownerId' = [ownerId EXCEPT ![p] = att[a].session]
               /\ updatedAt' = [updatedAt EXCEPT ![p] = @ + 1]
               /\ Set(a, AfterUpdate(att[a], TRUE))
          ELSE /\ UNCHANGED <<ownerId, updatedAt>>
               /\ Set(a, AfterUpdate(att[a], FALSE))
    /\ UNCHANGED <<claims, cache, now, others>>

\* the projectClaim row of a granted claim (lines 308-320)
SuccessClaim(a) ==
    [by |-> a, projectId |-> att[a].projectId, userId |-> att[a].session,
     success |-> TRUE, verificationMethod |-> att[a].ownershipType,
     verifiedAs |-> att[a].currentUser,
     repoOwner |-> att[a].repoData.login,
     repoOwnerType |-> att[a].repoData.type,
     detail |-> att[a].ownershipType]

\* mutant: the insert reads the session as the update does (?. and ?? null)
InsertSuccessOptionalSession(a) ==
    /\ att[a].pc = "insertSuccess"
    /\ claims' = claims \cup {SuccessClaim(a)}
    /\ Fail(a, att[a], "Success")
    /\ UNCHANGED <<ownerId, updatedAt, cache, now, others>>

\* lines 308-335: record the claim and return
InsertSuccess(a) ==
    /\ att[a].pc = "insertSuccess"
    /\ IF att[a].session = Null
       THEN /\ Fail(a, att[a], "TypeError")
            /\ UNCHANGED claims
       ELSE /\ claims' = claims \cup {SuccessClaim(a)}
            /\ Fail(a, att[a], "Success")
    /\ UNCHANGED <<ownerId, updatedAt, cache, now, others>>

\* the process dies between the update and the insert (a rejected insert
\* leaves the same tables behind)
Crash(a) ==
    /\ att[a].pc = "insertSuccess"
    /\ Fail(a, att[a], "Crashed")
    /\ UNCHANGED <<ownerId, updatedAt, claims, cache, now, others>>

Next ==
    \E a \in Attempts :
         \/ Begin(a)
         \/ GetCurrentUser(a)
         \/ GetRepo(a)
         \/ FetchRepo(a)
         \/ GetPermission(a)
         \/ GetMembershipAdmin(a)
         \/ GetMembershipFallback(a)
         \/ Deny(a)
         \/ Update(a)
         \/ InsertSuccess(a)
         \/ Crash(a)

Spec == Init /\ [][Next]_vars

\* ------------------------------------------- parseRepoIdentifier, called alone
MaxIdLen == 4         \* longest identifier parsed

IdChars == {"o", "r", "/"}

\* the strings over IdChars of length n
IdStringsOfLen(n) == [1..n -> IdChars]

IdStrings == UNION {IdStringsOfLen(n) : n \in 0..MaxIdLen}

InitParse ==
    /\ VerifyIdle
    /\ cache = [k \in Identifiers |-> NoEntry]
    /\ now = 0
    /\ \E identifier \in IdStrings :
         parse = [ParseIdle EXCEPT !.pc = "called", !.identifier = identifier]
    /\ fetch = FetchIdle
    /\ contrib = ContribIdle
    /\ prs = PrsIdle

\* lines 31-37: return { owner, repo } or throw
Parse ==
    /\ parse.pc = "called"
    /\ LET out == parseRepoIdentifier(parse.identifier)
       IN parse' = [parse EXCEPT !.out = out,
                                 !.pc = IF out.ok THEN "returned" ELSE "threw"]
    /\ UNCHANGED <<att, ownerId, updatedAt, claims, cache, now, fetch, contrib, prs>>

NextParse == Parse

SpecParse == InitParse /\ [][NextParse]_vars

\* ------------------------------------------------ getRepo, called over time
MaxTicks == 3         \* how often the clock advances
TickSeconds == 150    \* seconds per clock advance

FetchIdentifiers == { <<"a", "/", "r">>, <<"o", "/", "r">>, <<"a">> }

InitFetch ==
    /\ VerifyIdle
    /\ cache = [k \in FetchIdentifiers |-> NoEntry]
    /\ now = 0
    /\ parse = ParseIdle
    /\ fetch = FetchIdle
    /\ contrib = ContribIdle
    /\ prs = PrsIdle

\* lines 50-54 and getCached's lookup: a malformed identifier throws, an entry
\* younger than the ttl is returned, anything else calls the producer
GetRepoCall(identifier) ==
    /\ fetch.pc \in {"idle", "returned", "failed"}
    /\ LET call == [FetchIdle EXCEPT !.key = identifier,
                                     !.before = cache[identifier],
                                     !.lookupAt = now]
       IN fetch' =
            IF ~parseRepoIdentifier(identifier).ok
            THEN [call EXCEPT !.pc = "failed"]
            ELSE IF CacheHit(identifier, RepoTtl)
            THEN [call EXCEPT !.pc = "returned",
                              !.result = cache[identifier].value]
            ELSE [call EXCEPT !.pc = "producing"]
    /\ UNCHANGED <<att, ownerId, updatedAt, claims, cache, now, parse, contrib, prs>>

\* lines 55-66 and getCached's store: the producer answers or rejects
GetRepoProduce ==
    /\ fetch.pc = "producing"
    /\ \/ \E data \in RepoDatas :
            /\ cache' = [cache EXCEPT ![fetch.key] =
                            [value |-> data, storedAt |-> now]]
            /\ fetch' = [fetch EXCEPT !.pc = "returned", !.produced = @ + 1,
                                      !.result = data]
       \/ /\ fetch' = [fetch EXCEPT !.pc = "failed", !.produced = @ + 1]
          /\ UNCHANGED cache
    /\ UNCHANGED <<att, ownerId, updatedAt, claims, now, parse, contrib, prs>>

\* time passes
Tick ==
    /\ now < MaxTicks * TickSeconds
    /\ now' = now + TickSeconds
    /\ UNCHANGED <<att, ownerId, updatedAt, claims, cache, others>>

NextFetch ==
    \/ \E identifier \in FetchIdentifiers : GetRepoCall(identifier)
    \/ GetRepoProduce
    \/ Tick

SpecFetch == InitFetch /\ [][NextFetch]_vars

\* ------------------------------------------------------------ getContributors
PerPage == 100        \* per_page: 100
MaxPages == 50        \* if (page > 50) break

\* what one page of listContributors may hold
PageLengths == {0, 1, PerPage - 1, PerPage}

InitContrib ==
    /\ VerifyIdle
    /\ cache = [k \in Identifiers |-> NoEntry]
    /\ now = 0
    /\ parse = ParseIdle
    /\ fetch = FetchIdle
    /\ contrib = ContribIdle
    /\ prs = PrsIdle

\* lines 87-94: the identifier parses, nothing is cached, the producer starts
ContribBegin ==
    /\ contrib.pc = "idle"
    /\ contrib' = [contrib EXCEPT !.pc = "loop"]
    /\ UNCHANGED <<att, ownerId, updatedAt, claims, cache, now, parse, fetch, prs>>

\* mutant: the cap compared one page late
PageCapLate(page) == page > MaxPages + 1

\* if (page > 50) break
PageCapReached(page) == page > MaxPages

\* lines 96-110: one turn of the while loop; requested and lengths keep the
\* pages asked for and the number of items each returned
ContribPage ==
    /\ contrib.pc = "loop"
    /\ contrib.hasMore
    /\ \/ \E len \in PageLengths :
            LET hasMore == len = PerPage
                page == contrib.page + 1
            IN contrib' =
                 [contrib EXCEPT
                    !.requested = Append(@, contrib.page),
                    !.lengths = Append(@, len),
                    !.count = @ + len,
                    !.hasMore = hasMore,
                    !.page = page,
                    !.pc = IF PageCapReached(page) \/ ~hasMore
                           THEN "done" ELSE "loop"]
       \/ contrib' = [contrib EXCEPT !.pc = "failed",
                                     !.requested = Append(@, contrib.page)]
    /\ UNCHANGED <<att, ownerId, updatedAt, claims, cache, now, parse, fetch, prs>>

NextContrib ==
    \/ ContribBegin
    \/ ContribPage

\* every page request is answered
SpecContrib == InitContrib /\ [][NextContrib]_vars /\ WF_vars(NextContrib)

\* -------------------------------------------------------- getUserPullRequests
MaxUpstream == 3      \* pull requests the provider holds for the user
MaxLimit == 3         \* largest options.limit passed

DefaultLimit == 100   \* options?.limit || 100
PageCap == 100        \* Math.min(100, limit - allPRs.length)

PrStates == {"OPEN", "CLOSED", "MERGED"}
MergedAts == {Null, "t"}              \* mergedAt: string | null
PrNodes == [state : PrStates, mergedAt : MergedAts]
StateFilters == {"open", "closed", "merged", "all"}

\* the user's pull requests in the order of the connection
Upstreams == UNION {[1..n -> PrNodes] : n \in 0..MaxUpstream}

Min(x, y) == IF x <= y THEN x ELSE y

\* pr.state.toLowerCase()
ToLowerCase(state) ==
    CASE state = "OPEN" -> "open"
      [] state = "CLOSED" -> "closed"
      [] state = "MERGED" -> "merged"

\* lines 493-514: the node at position i as a UserPullRequestData
FormatPr(node, i) ==
    [id |-> i, state |-> ToLowerCase(node.state), mergedAt |-> node.mergedAt]

\* mutant: the case of the merged filter is missing
KeepPrNoMergedCase(pr, stateFilter) ==
    IF stateFilter = "all" THEN TRUE
    ELSE IF stateFilter = "open" THEN pr.state = "open"
    ELSE IF stateFilter = "closed" THEN pr.state = "closed" /\ pr.mergedAt = Null
    ELSE TRUE

\* lines 516-522: the filter callback
KeepPr(pr, stateFilter) ==
    IF stateFilter = "all" THEN TRUE
    ELSE IF stateFilter = "open" THEN pr.state = "open"
    ELSE IF stateFilter = "closed" THEN pr.state = "closed" /\ pr.mergedAt = Null
    ELSE IF stateFilter = "merged" THEN pr.state = "merged" \/ pr.mergedAt # Null
    ELSE TRUE

\* formattedPRs.filter(...) over the nodes at positions from..to
RECURSIVE FilteredPage(_, _, _, _)
FilteredPage(upstream, from, to, stateFilter) ==
    IF from > to THEN <<>>
    ELSE LET pr == FormatPr(upstream[from], from)
             rest == FilteredPage(upstream, from + 1, to, stateFilter)
         IN IF KeepPr(pr, stateFilter) THEN <<pr>> \o rest ELSE rest

InitPrs ==
    /\ VerifyIdle
    /\ cache = [k \in Identifiers |-> NoEntry]
    /\ now = 0
    /\ parse = ParseIdle
    /\ fetch = FetchIdle
    /\ contrib = ContribIdle
    /\ \E upstream \in Upstreams, limitArg \in 0..MaxLimit,
          stateFilter \in StateFilters :
         prs = [PrsIdle EXCEPT !.pc = "called", !.upstream = upstream,
                               !.limitArg = limitArg,
                               !.stateFilter = stateFilter]

\* lines 400-442: limitArg 0 is a limit of 0 or none at all
PrsBegin ==
    /\ prs.pc = "called"
    /\ prs' = [prs EXCEPT
                 !.limit = IF prs.limitArg = 0 THEN DefaultLimit ELSE prs.limitArg,
                 !.pc = "loop"]
    /\ UNCHANGED <<att, ownerId, updatedAt, claims, cache, now, parse, fetch, contrib>>

\* mutant: the cursor is never taken from the page
KeepCursor(cursor, endCursor) == cursor

\* cursor = response.user.pullRequests.pageInfo.endCursor
AdvanceCursor(cursor, endCursor) == endCursor

\* lines 445-534: one turn of the while loop.  The provider answers the
\* query (first, after) with the next first nodes after the cursor; afters,
\* firsts and sizes keep each request's cursor, page size and allPRs.length.
PrsPage ==
    /\ prs.pc = "loop"
    /\ prs.hasNextPage /\ Len(prs.allPRs) < prs.limit
    /\ LET first == Min(PageCap, prs.limit - Len(prs.allPRs))
           after == prs.cursor
           to == Min(after + first, Len(prs.upstream))
           asked == [prs EXCEPT !.afters = Append(@, after),
                                !.firsts = Append(@, first),
                                !.sizes = Append(@, Len(prs.allPRs))]
       IN \/ LET allPRs == prs.allPRs \o
                             FilteredPage(prs.upstream, after + 1, to, prs.stateFilter)
                  hasNextPage == to < Len(prs.upstream)
                  stop == ~hasNextPage \/ Len(allPRs) >= prs.limit
              IN prs' = [asked EXCEPT
                           !.allPRs = allPRs,
                           !.hasNextPage = hasNextPage,
                           !.cursor = AdvanceCursor(after, to),
                           !.pc = IF stop THEN "returned" ELSE "loop",
                           !.result = IF stop
                                      THEN SubSeq(allPRs, 1, Min(prs.limit, Len(allPRs)))
                                      ELSE <<>>]
          \/ prs' = [asked EXCEPT !.pc = "notFound"]
          \/ prs' = [asked EXCEPT !.pc = "internalError"]
    /\ UNCHANGED <<att, ownerId, updatedAt, claims, cache, now, parse, fetch, contrib>>

NextPrs ==
    \/ PrsBegin
    \/ PrsPage

SpecPrs == InitPrs /\ [][NextPrs]_vars

\* ------------------------------------------------------------- properties
Done(a) == att[a].pc = "done"

\* the attempt returned or threw; it did not die on the way
Returned(a) == Done(a) /\ att[a].outcome # "Crashed"

RowsBy(a) == {r \in claims : r.by = a}

SuccessRows(p) == {r \in claims : r.success /\ r.projectId = p}

\* the attempt passed the authorization checks and was made with a session user
Authorized(a) == att[a].isOwner /\ att[a].session # Null

\* the caller is not the direct owner of an organization's repository
OrgPath(a) ==
    /\ att[a].repoData.type = "Organization"
    /\ att[a].repoData.login # att[a].currentUser

\* C1: two attempts made with a session user for the same unclaimed project
\* that both pass the authorization checks and both run to their return: in
\* every interleaving one returns Success, the other fails with Conflict, and
\* the project has exactly one ClaimAttempt with success = true.
C1_ExactlyOnce ==
    \A a, b \in Attempts :
        ( /\ a # b
          /\ Authorized(a) /\ Authorized(b)
          /\ Returned(a) /\ Returned(b)
          /\ att[a].projectId = att[b].projectId
          /\ \A c \in Attempts \ {a, b} : att[c].rows = "none" )
        => /\ {att[a].outcome, att[b].outcome} = {"Success", "Conflict"}
           /\ Cardinality(SuccessRows(att[a].projectId)) = 1

C1_Witness ==
    \E a, b \in Attempts :
        /\ a # b /\ Authorized(a) /\ Authorized(b)
        /\ att[a].projectId = att[b].projectId
        /\ att[a].session # att[b].session
        /\ att[a].outcome = "Success" /\ att[b].outcome = "Conflict"

\* C2: a project's ownerId starts unset and, once it holds a user id, no step
\* of any attempt changes it to another value or back to unset.
C2_OwnerSetOnce ==
    /\ \A p \in Projects : ownerId[p] = Null
    /\ [][\A p \in Projects : ownerId[p] # Null => ownerId'[p] = ownerId[p]]_vars

C2_Witness ==
    \E a \in Attempts :
        /\ att[a].rows = "miss"
        /\ ownerId[att[a].projectId] \in Users

\* C3: an attempt that passed the authorization checks and runs its update on
\* a project whose ownerId is set by a different user fails with Conflict,
\* leaves ownerId in place and never writes a ClaimAttempt with success = true.
C3_ConflictWhenClaimed ==
    [][\A a \in Attempts :
         /\ ( /\ att[a].pc = "update" /\ att'[a].pc # "update"
              /\ ownerId[att[a].projectId] \notin {Null, att[a].session} )
            => /\ att'[a].outcome = "Conflict"
               /\ ownerId' = ownerId
               /\ claims' = claims
         /\ att'[a].outcome = "Conflict"
            => \A r \in claims' : r.by = a => ~r.success]_vars

C3_Witness ==
    \E a \in Attempts :
        /\ att[a].outcome = "Conflict" /\ att[a].isOwner
        /\ ownerId[att[a].projectId] \notin {Null, att[a].session}
        /\ \A r \in SuccessRows(att[a].projectId) : r.by # a

\* C4: an attempt that ended in an Authorization failure has persisted exactly
\* one ClaimAttempt: success = false, reason insufficient_permissions, for its
\* project and session user, recording the resolved identity and the
\* repository owner and owner type.
C4_DenialRecorded ==
    \A a \in Attempts :
        att[a].outcome = "Authorization"
        => /\ Cardinality(RowsBy(a)) = 1
           /\ \A r \in RowsBy(a) :
                /\ ~r.success
                /\ r.detail = "insufficient_permissions"
                /\ r.projectId = att[a].projectId
                /\ r.userId = att[a].session /\ r.userId \in Users
                /\ r.verifiedAs = att[a].currentUser /\ r.verifiedAs \in Logins
                /\ r.repoOwner = att[a].repoData.login
                /\ r.repoOwnerType = att[a].repoData.type
                /\ r.repoOwnerType \in OwnerTypes

C4_Witness ==
    \E a \in Attempts :
        /\ att[a].outcome = "Authorization"
        /\ att[a].permission = "write"
        /\ RowsBy(a) # {}

\* the failures of parseRepoIdentifier, getCurrentUser and getRepo
ResolutionFailures == {"InvalidIdentifier", "IdentityFailure", "RepositoryFailure"}

\* C5: when identity or repository resolution fails (a malformed identifier
\* included) the failure is the attempt's outcome, no ClaimAttempt is written,
\* no permission or org-membership lookup and no project update is issued.
C5_ResolutionFailurePropagates ==
    \A a \in Attempts :
        /\ ( Done(a) /\ ( ~parseRepoIdentifier(att[a].identifier).ok
                          \/ att[a].currentUser = Null
                          \/ att[a].repoData = NoRepo ) )
           => att[a].outcome \in ResolutionFailures
        /\ att[a].outcome \in ResolutionFailures
           => /\ RowsBy(a) = {}
              /\ att[a].permCalls = 0 /\ att[a].orgCalls = 0
              /\ att[a].rows = "none"

C5_Witness ==
    \E a, b \in Attempts :
        /\ att[a].outcome = "RepositoryFailure"
        /\ att[b].outcome \in {"IdentityFailure", "InvalidIdentifier"}
        /\ claims = {}

\* C6: in every state, attempts suspended or dead between the update and the
\* insert included, a ClaimAttempt with success = true for project p and user
\* u implies that p's ownerId is u, and the attempt that wrote it had its
\* conditional update match the row before.
C6_SuccessImpliesOwner ==
    \A r \in claims :
        r.success => /\ ownerId[r.projectId] = r.userId
                     /\ att[r.by].rows = "hit"

C6_Witness ==
    \E r \in claims, b \in Attempts :
        /\ r.success /\ r.by # b
        /\ att[b].outcome = "Crashed" \/ att[b].pc = "update"

\* C7: on the organization path, a permission lookup that succeeds with a
\* level other than admin is followed by the org-membership lookup, and role
\* admin with state active then grants the claim as "organization owner".
C7_MembershipTriedWhenNotAdmin ==
    \A a \in Attempts :
        ( /\ OrgPath(a)
          /\ att[a].permission \in {"none", "read", "write"}
          /\ att[a].pc \in {"deny", "update", "insertSuccess", "done"} )
        => /\ att[a].orgCalls = 1
           /\ IsActiveAdmin(att[a].membership)
              => att[a].isOwner /\ att[a].ownershipType = "organization owner"

\* C8: organization path, permission admin, membership lookup failed, session
\* user present, project unclaimed when the update runs: the attempt returns
\* Success as "repository admin" and the project's ownerId is the session user.
C8_AdminFallback ==
    \A a \in Attempts :
        ( /\ OrgPath(a)
          /\ att[a].permission = "admin"
          /\ att[a].membership = ErrMembership
          /\ att[a].session # Null
          /\ Returned(a) /\ att[a].rows # "miss" )
        => /\ att[a].outcome = "Success"
           /\ att[a].ownershipType = "repository admin"
           /\ ownerId[att[a].projectId] = att[a].session

C8_Witness ==
    \E a \in Attempts :
        /\ OrgPath(a) /\ att[a].permission = "admin"
        /\ att[a].membership = ErrMembership
        /\ att[a].outcome = "Success"

\* C9: organization path, permission lookup failed: role admin with state
\* active returns Success as "organization owner" (session user present,
\* project unclaimed when the update runs); a failed membership lookup or any
\* other role or state denies the attempt.
C9_MembershipFallback ==
    \A a \in Attempts :
        ( /\ OrgPath(a)
          /\ att[a].permission = Err
          /\ att[a].session # Null
          /\ Returned(a) )
        => IF IsActiveAdmin(att[a].membership)
           THEN att[a].rows # "miss"
                => /\ att[a].outcome = "Success"
                   /\ att[a].ownershipType = "organization owner"
           ELSE /\ att[a].outcome = "Authorization"
                /\ ~att[a].isOwner /\ att[a].rows = "none"

C9_Witness ==
    \E a, b \in Attempts :
        /\ OrgPath(a) /\ att[a].permission = Err
        /\ IsActiveAdmin(att[a].membership) /\ att[a].outcome = "Success"
        /\ OrgPath(b) /\ att[b].permission = Err
        /\ att[b].membership = ErrMembership /\ att[b].outcome = "Authorization"

\* C10: when repoData.owner.login equals the caller's login, for either owner
\* type, no permission and no org-membership lookup is issued, and (session
\* user present, project unclaimed when the update runs) the attempt returns
\* Success as "repository owner".
C10_DirectOwner ==
    \A a \in Attempts :
        ( /\ att[a].repoData # NoRepo
          /\ att[a].repoData.login = att[a].currentUser )
        => /\ att[a].permCalls = 0 /\ att[a].orgCalls = 0
           /\ ( att[a].session # Null /\ Returned(a) /\ att[a].rows # "miss" )
              => /\ att[a].outcome = "Success"
                 /\ att[a].ownershipType = "repository owner"

C10_Witness ==
    \E a \in Attempts :
        /\ att[a].repoData.login = att[a].currentUser
        /\ att[a].repoData.type = "Organization"
        /\ att[a].outcome = "Success"
        /\ att[a].ownershipType = "repository owner"

\* C11: an attempt whose caller context carries no session user id never
\* returns Success, whether the authorization checks grant or deny the claim:
\* it ends in a failure and writes no ClaimAttempt with success = true.
C11_NoSessionNeverSucceeds ==
    \A a \in Attempts :
        att[a].session = Null
        => /\ att[a].outcome # "Success"
           /\ \A r \in RowsBy(a) : ~r.success
           /\ Returned(a)
              => att[a].outcome \in ResolutionFailures \cup {"TypeError", "Conflict"}

C11_Witness ==
    \E a, b \in Attempts :
        /\ att[a].session = Null /\ att[a].isOwner /\ att[a].rows = "hit"
        /\ att[a].outcome = "TypeError"
        /\ att[b].session = Null /\ ~att[b].isOwner
        /\ att[b].repoData # NoRepo /\ att[b].outcome = "TypeError"

\* C12: an attempt that returns or throws ends in one of four outcomes:
\* Success, Authorization failure, Conflict failure, or a propagated identity
\* or repository resolution failure.
C12_FourOutcomes ==
    \A a \in Attempts :
        Returned(a)
        => att[a].outcome \in {"Success", "Authorization", "Conflict"}
                                \cup ResolutionFailures

\* C16: Success is returned only if (1) the repository owner's login is the
\* caller's, or (2) the owner is an Organization, the permission level is
\* admin and the membership lookup failed or returned role admin with state
\* active, or (3) the owner is an Organization, the permission lookup failed
\* and the membership lookup returned role admin with state active.
C16_GrantOnlyIfOwner ==
    \A a \in Attempts :
        ( att[a].outcome = "Success" \/ att[a].isOwner
          \/ \E r \in RowsBy(a) : r.success )
        => \/ att[a].repoData.login = att[a].currentUser
           \/ /\ att[a].repoData.type = "Organization"
              /\ att[a].permission = "admin"
              /\ \/ att[a].membership = ErrMembership
                 \/ /\ att[a].membership.role = "admin"
                    /\ att[a].membership.state = "active"
           \/ /\ att[a].repoData.type = "Organization"
              /\ att[a].permission = Err
              /\ att[a].membership.role = "admin"
              /\ att[a].membership.state = "active"

C16_Witness ==
    \E a, b \in Attempts :
        /\ att[a].outcome = "Success" /\ att[a].permission = "admin"
        /\ att[a].membership.role = "admin" /\ att[a].membership.state = "active"
        /\ att[b].outcome = "Authorization" /\ att[b].permission = "admin"
        /\ att[b].membership.role = "admin" /\ att[b].membership.state = "pending"

\* C17: a failure of the permission lookup or of the membership lookup never
\* becomes the attempt's outcome: whatever the two lookups answer, the attempt
\* goes on to the denial or to the ownership assignment, and each lookup is
\* issued at most once per attempt.
C17_LookupFailuresSwallowed ==
    \A a \in Attempts :
        /\ att[a].permCalls <= 1 /\ att[a].orgCalls <= 1
        /\ ( att[a].permCalls = 1 /\ Done(a) )
           => \/ att[a].isOwner /\ att[a].rows # "none"
              \/ /\ ~att[a].isOwner /\ att[a].rows = "none"
                 /\ att[a].outcome \in {"Authorization", "TypeError"}

C17_Witness ==
    \E a, b \in Attempts :
        /\ att[a].permission = Err /\ att[a].membership = ErrMembership
        /\ att[a].outcome = "Authorization"
        /\ att[b].permission = "admin" /\ att[b].membership = ErrMembership
        /\ att[b].rows # "none"

\* C20: an attempt that returns anything but Success has left the project row
\* as it was: its conditional update did not write ownerId or updatedAt.
C20_FailureLeavesProject ==
    \A a \in Attempts :
        ( Returned(a) /\ att[a].outcome # "Success" ) => att[a].rows # "hit"

\* the number of '/' in a string
SlashCount(str) == Cardinality({i \in 1..Len(str) : str[i] = "/"})

\* exactly one non-empty segment on each side of a single '/'
WellFormed(str) ==
    /\ SlashCount(str) = 1
    /\ str[1] # "/" /\ str[Len(str)] # "/"

\* C13: parsing succeeds exactly when the string has one non-empty segment on
\* each side of a single '/', and then returns those two segments unchanged;
\* every other string fails with InvalidIdentifier.
C13_ParseExactlyWellFormed ==
    parse.pc \in {"returned", "threw"}
    => /\ (parse.pc = "returned") <=> WellFormed(parse.identifier)
       /\ parse.pc = "returned"
          => parse.out.owner \o <<"/">> \o parse.out.repo = parse.identifier

\* the freshness window of a cached repository, in seconds
FiveMinutes == 300

\* the entry found by the lookup was stored less than five minutes before it
FoundFresh ==
    /\ fetch.before # NoEntry
    /\ fetch.lookupAt - fetch.before.storedAt < FiveMinutes

\* C14: a fetch of a repository calls the producer if and only if no entry of
\* its key was stored less than ttl seconds ago: within the window it returns
\* the stored value and leaves the entry alone, after expiry it calls the
\* producer once and stores the fresh result with a fresh timestamp; a
\* producer failure is the fetch's failure and stores nothing.
C14_ProducerIffStale ==
    ( fetch.pc \in {"returned", "failed"} /\ parseRepoIdentifier(fetch.key).ok )
    => /\ (fetch.produced = 0) <=> FoundFresh
       /\ fetch.produced <= 1
       /\ FoundFresh => /\ fetch.pc = "returned"
                        /\ fetch.result = fetch.before.value
                        /\ cache[fetch.key] = fetch.before
       /\ ( ~FoundFresh /\ fetch.pc = "returned" )
          => /\ cache[fetch.key].value = fetch.result
             /\ cache[fetch.key].storedAt >= fetch.lookupAt
       /\ fetch.pc = "failed" => cache[fetch.key] = fetch.before

C14_Witness ==
    /\ fetch.pc = "returned" /\ fetch.produced = 1
    /\ fetch.before # NoEntry
    /\ fetch.result # fetch.before.value
    /\ cache[fetch.key].storedAt = fetch.before.storedAt + FiveMinutes

\* at most 50 requests for pages 1, 2, 3, ..., at most 5000 records, and no
\* request after a page of fewer than 100 items
ContribBounded ==
    /\ Len(contrib.requested) <= 50
    /\ contrib.count <= 5000
    /\ \A i \in 1..Len(contrib.requested) : contrib.requested[i] = i
    /\ \A i \in 1..Len(contrib.lengths) :
         contrib.lengths[i] < 100
         => i = Len(contrib.lengths) /\ contrib.pc = "done"
    /\ contrib.pc = "done"
       => /\ Len(contrib.lengths) = Len(contrib.requested)
          /\ Len(contrib.lengths) >= 1
          /\ \/ contrib.lengths[Len(contrib.lengths)] < 100
             \/ Len(contrib.requested) = 50

\* C18: list_contributors terminates, issues at most 50 page requests and
\* returns at most 5000 records whatever the provider holds, stops at the
\* first page of fewer than 100 items, and requests pages 1, 2, 3, ... in
\* order, none skipped or repeated.
C18_ContributorsBounded ==
    /\ []ContribBounded
    /\ <>(contrib.pc \in {"done", "failed"})

C18_Witness ==
    /\ contrib.pc = "done"
    /\ Len(contrib.requested) = 50
    /\ contrib.count = 5000

\* C15 as claimed: with state_filter "merged" and a limit L >= 1 the call
\* returns at most L records and every returned record has a non-empty
\* mergedAt, whatever the provider's pages hold.
C15_MergedHaveMergedAt ==
    ( prs.pc = "returned" /\ prs.stateFilter = "merged" /\ prs.limitArg >= 1 )
    => /\ Len(prs.result) <= prs.limitArg
       /\ \A i \in 1..Len(prs.result) : prs.result[i].mergedAt # Null

\* C15 as amended: with state_filter "merged" and a limit L >= 1 the call
\* returns at most L records and every returned record has a non-empty
\* mergedAt or the state merged.
C15_MergedByStateOrMergedAt ==
    ( prs.pc = "returned" /\ prs.stateFilter = "merged" /\ prs.limitArg >= 1 )
    => /\ Len(prs.result) <= prs.limitArg
       /\ \A i \in 1..Len(prs.result) :
            \/ prs.result[i].mergedAt # Null
            \/ prs.upstream[prs.result[i].id].state = "MERGED"

C15_Witness ==
    /\ prs.pc = "returned" /\ prs.stateFilter = "merged"
    /\ prs.limitArg >= 1 /\ Len(prs.result) = prs.limitArg
    /\ prs.hasNextPage
    /\ \E i \in 1..Len(prs.result) :
         prs.result[i].mergedAt = Null /\ prs.result[i].state = "merged"

\* a node matches a state filter: open by its state, closed when closed and
\* never merged, merged by its merge timestamp
MatchesFilter(node, stateFilter) ==
    CASE stateFilter = "all" -> TRUE
      [] stateFilter = "open" -> node.state = "OPEN"
      [] stateFilter = "closed" -> node.state = "CLOSED" /\ node.mergedAt = Null
      [] stateFilter = "merged" -> node.mergedAt # Null

\* the limit in force: a limit of 0 or none is 100
LimitInForce == IF prs.limitArg = 0 THEN 100 ELSE prs.limitArg

\* C19: every page is asked for at the end cursor of the page before it, no
\* page is asked for once the accumulated matches have reached the limit, the
\* call returns only when the limit is reached or the provider has no further
\* page, and a result of fewer than limit records comes with every upstream
\* page fetched and holds every matching upstream pull request, in upstream
\* order.
C19_PaginatesToLimitOrEnd ==
    prs.pc \in {"loop", "returned"}
    => /\ \A i \in 1..Len(prs.afters) :
            /\ prs.sizes[i] < LimitInForce
            /\ prs.afters[i] =
                 IF i = 1 THEN 0
                 ELSE Min(prs.afters[i - 1] + prs.firsts[i - 1], Len(prs.upstream))
       /\ prs.pc = "returned"
          => /\ Len(prs.afters) >= 1
             /\ Len(prs.allPRs) >= LimitInForce \/ ~prs.hasNextPage
             /\ Len(prs.result) < LimitInForce
                => /\ prs.cursor = Len(prs.upstream) /\ ~prs.hasNextPage
                   /\ \A i \in 1..Len(prs.upstream) :
                        MatchesFilter(prs.upstream[i], prs.stateFilter)
                        => \E j \in 1..Len(prs.result) : prs.result[j].id = i
                   /\ \A j, k \in 1..Len(prs.result) :
                        j < k => prs.result[j].id < prs.result[k].id

C19_Witness ==
    /\ prs.pc = "returned"
    /\ Len(prs.afters) = 2
    /\ Len(prs.result) = 1 /\ Len(prs.result) < LimitInForce
    /\ prs.stateFilter = "closed"

====
